---- MODULE Spec2Model ----
(***************************************************************************)
(* Model of backend/search_tools.py: the CourseSearchTool (execute,        *)
(* _format_results, _get_course_metadata, _get_lesson_info) and the        *)
(* ToolManager registry (register_tool, execute_tool, get_last_sources,    *)
(* reset_sources).                                                         *)
(*                                                                         *)
(* Python's Optional values are written None / Some(v).  Python strings    *)
(* are TLA+ strings, f-strings are concatenations with \o, and an integer  *)
(* is formatted with ToString.  A dict that preserves insertion order      *)
(* (ToolManager.tools) is a sequence of [name, tool] entries.              *)
(***************************************************************************)
EXTENDS Integers, Sequences, FiniteSets, TLC

VARIABLES
    catalog,       \* store.course_catalog: course title -> what get(ids=[title]) answers
    tools,         \* ToolManager.tools, in dict (insertion) order
    last_sources,  \* tool object -> its last_sources attribute (tools that have one)
    op,            \* the operation that ran last ("pending": a call about to run)
    args,          \* the arguments of that operation
    ret,           \* the string it returned
    sources_ret,   \* the list it returned (get_last_sources)
    raised,        \* whether it raised
    call_sources,  \* history: the source list built by that operation, an execute()
    last_reg,      \* history: tool name -> tool of the last successful register_tool
    first_order,   \* history: names in the order of their first registration
    tool_order,    \* history: tool objects in the order of their first registration
    phase          \* history: "dirty", "reset" (since reset_sources: nothing but reads),
                   \*          "reset_reg" (since reset_sources: register_tool, no execute)

vars == <<catalog, tools, last_sources, op, args, ret, sources_ret, raised,
          call_sources, last_reg, first_order, tool_order, phase>>

None == <<>>
Some(v) == <<v>>

\* ------------------------------------------------------------------ bounds
\* Largest number of hits the store returns to one CourseSearchTool call.
MaxHits == 2
\* Largest number of hits the store returns to a call made through the manager.
MaxMgrHits == 1

\* ------------------------------------------------------- the store's data
CourseTitles == {"MCP", "unknown"}
Docs == {"d1", "d2"}
LessonNums == {0, 1}

\* One search hit: a document and its metadata mapping; a key the mapping
\* lacks is None.
Hits ==
    [doc : Docs,
     course_title : {None, Some("MCP")},
     lesson_number : {None} \cup {Some(n) : n \in LessonNums}]

SeqsUpTo(S, n) == UNION {[1..k -> S] : k \in 0..n}

\* SearchResults: parallel documents and metadata (here one sequence of
\* hits), and the optional error message; an error comes with no documents.
SearchResultsOver(H, n) ==
    {[hits |-> h, error |-> None] : h \in SeqsUpTo(H, n)}
    \cup {[hits |-> <<>>, error |-> Some("connection timeout")]}

\* The serialized lesson lists a catalog entry may hold under lessons_json.
GoodLessonsJson ==
    "[{\"lesson_number\": 0, \"lesson_title\": \"Intro\", \"lesson_link\": \"http://mcp/0\"}, "
    \o "{\"lesson_number\": 1, \"lesson_title\": \"Setup\", \"lesson_link\": null}, "
    \o "{\"lesson_number\": 1, \"lesson_title\": \"Setup again\", \"lesson_link\": \"http://mcp/1b\"}]"
UnknownLessonsJson ==
    "[{\"lesson_number\": 1, \"lesson_title\": \"First\", \"lesson_link\": \"http://u/1\"}]"
BadJson == "[{\"lesson_number\": 0,"
NullJson == "null"
IntListJson == "[7]"

LessonDict(n, title, link) ==
    [t |-> "dict", lesson_number |-> n, lesson_title |-> title, lesson_link |-> link]
JsonNull == [t |-> "null", items |-> <<>>]
JsonList(items) == [t |-> "list", items |-> items]
JsonInt == [t |-> "int", items |-> <<>>]

\* json.loads on the texts above: the value, or the JSONDecodeError it raises.
JsonLoads(text) ==
    CASE text = GoodLessonsJson ->
           [raises |-> FALSE,
            value |-> JsonList(<<LessonDict(Some(0), Some("Intro"), Some("http://mcp/0")),
                                 LessonDict(Some(1), Some("Setup"), None),
                                 LessonDict(Some(1), Some("Setup again"), Some("http://mcp/1b"))>>)]
      [] text = UnknownLessonsJson ->
           [raises |-> FALSE,
            value |-> JsonList(<<LessonDict(Some(1), Some("First"), Some("http://u/1"))>>)]
      [] text = NullJson -> [raises |-> FALSE, value |-> JsonNull]
      [] text = IntListJson -> [raises |-> FALSE, value |-> JsonList(<<JsonInt>>)]
      [] OTHER -> [raises |-> TRUE, value |-> JsonNull]

\* What course_catalog.get(ids=[title]) answers for one title.
Entry(link, instructor, lessons_json) ==
    [raises |-> FALSE,
     metadatas |-> <<[course_link |-> link, instructor |-> instructor,
                      lessons_json |-> lessons_json]>>]
Absent == [raises |-> FALSE, metadatas |-> <<>>]
Throws == [raises |-> TRUE, metadatas |-> <<>>]

McpAnswers ==
    {Absent, Throws,
     Entry(Some("http://mcp"), Some("Ann"), None),
     Entry(Some("http://mcp"), Some("Ann"), Some(GoodLessonsJson)),
     Entry(Some("http://mcp"), Some("Ann"), Some(BadJson)),
     Entry(Some("http://mcp"), Some("Ann"), Some(NullJson)),
     Entry(Some("http://mcp"), Some("Ann"), Some(IntListJson))}
UnknownAnswers ==
    {Absent, Entry(Some("http://u"), None, Some(UnknownLessonsJson))}

Catalogs ==
    {[t \in CourseTitles |-> IF t = "MCP" THEN m ELSE u] :
        m \in McpAnswers, u \in UnknownAnswers}

\* --------------------------------------------------------- CourseSearchTool
\* A course metadata dict; {} is EmptyMeta (falsy).
EmptyMeta ==
    [truthy |-> FALSE, course_link |-> None, instructor |-> None,
     has_lessons |-> FALSE, lessons |-> JsonNull]

get_course_metadata(cat, course_title) ==
    LET results == cat[course_title] IN
    IF results.raises THEN EmptyMeta
    ELSE IF results.metadatas = <<>> THEN EmptyMeta
    ELSE LET metadata == results.metadatas[1] IN
         IF metadata.lessons_json # None
         THEN LET parsed == JsonLoads(metadata.lessons_json[1]) IN
              IF parsed.raises THEN EmptyMeta
              ELSE [truthy |-> TRUE, course_link |-> metadata.course_link,
                    instructor |-> metadata.instructor,
                    has_lessons |-> TRUE, lessons |-> parsed.value]
         ELSE [truthy |-> TRUE, course_link |-> metadata.course_link,
               instructor |-> metadata.instructor,
               has_lessons |-> FALSE, lessons |-> JsonNull]

\* A lesson dict; {} is EmptyLesson (falsy).
EmptyLesson == [truthy |-> FALSE, lesson_title |-> None, lesson_link |-> None]

RECURSIVE ScanLessons(_, _, _)
ScanLessons(items, i, lesson_number) ==
    IF i > Len(items) THEN [raises |-> FALSE, info |-> EmptyLesson]
    ELSE IF items[i].t # "dict" THEN [raises |-> TRUE, info |-> EmptyLesson]
    ELSE IF items[i].lesson_number = Some(lesson_number)
         THEN [raises |-> FALSE,
               info |-> [truthy |-> TRUE, lesson_title |-> items[i].lesson_title,
                         lesson_link |-> items[i].lesson_link]]
    ELSE ScanLessons(items, i + 1, lesson_number)

get_lesson_info(course_meta, lesson_number) ==
    IF ~course_meta.has_lessons THEN [raises |-> FALSE, info |-> EmptyLesson]
    ELSE IF course_meta.lessons.t # "list" THEN [raises |-> TRUE, info |-> EmptyLesson]
    ELSE ScanLessons(course_meta.lessons.items, 1, lesson_number)

hit_course_title(hit) ==
    IF hit.course_title = None THEN "unknown" ELSE hit.course_title[1]

\* A variant testing the lesson number for truth, not for None.
header_truthy(course_title, lesson_num) ==
    "[" \o course_title
        \o (IF lesson_num # None /\ lesson_num # Some(0)
            THEN " - Lesson " \o ToString(lesson_num[1]) ELSE "")
        \o "]"

header(course_title, lesson_num) ==
    "[" \o course_title
        \o (IF lesson_num # None THEN " - Lesson " \o ToString(lesson_num[1]) ELSE "")
        \o "]"

\* A variant keyed by the course alone.
source_key_title_only(course_title, lesson_num) == <<course_title, None>>

source_key(course_title, lesson_num) == <<course_title, lesson_num>>

cached_metadata(cache, cat, course_title) ==
    IF course_title \in DOMAIN cache THEN cache
    ELSE [t \in DOMAIN cache \cup {course_title} |->
            IF t = course_title THEN get_course_metadata(cat, course_title)
            ELSE cache[t]]

\* A variant filling lesson_link from the lesson's title.
source_info_copy_paste(course_title, course_meta, lesson_num, lesson_info) ==
    [course_title |-> course_title,
     course_link |-> IF course_meta.truthy THEN course_meta.course_link ELSE None,
     instructor |-> IF course_meta.truthy THEN course_meta.instructor ELSE None,
     lesson_number |-> lesson_num,
     lesson_title |-> IF lesson_info.truthy THEN lesson_info.lesson_title ELSE None,
     lesson_link |-> IF lesson_info.truthy THEN lesson_info.lesson_title ELSE None]

source_info(course_title, course_meta, lesson_num, lesson_info) ==
    [course_title |-> course_title,
     course_link |-> IF course_meta.truthy THEN course_meta.course_link ELSE None,
     instructor |-> IF course_meta.truthy THEN course_meta.instructor ELSE None,
     lesson_number |-> lesson_num,
     lesson_title |-> IF lesson_info.truthy THEN lesson_info.lesson_title ELSE None,
     lesson_link |-> IF lesson_info.truthy THEN lesson_info.lesson_link ELSE None]

\* One iteration of the loop of _format_results on the loop state st.
format_hit(st, hit, cat) ==
    LET course_title == hit_course_title(hit)
        lesson_num == hit.lesson_number
        key == source_key(course_title, lesson_num)
        entry == header(course_title, lesson_num) \o "\n" \o hit.doc
    IN
    IF key \in st.seen_sources
    THEN [st EXCEPT !.formatted = Append(@, entry)]
    ELSE LET cache == cached_metadata(st.course_metadata_cache, cat, course_title)
             course_meta == cache[course_title]
             lookup == IF lesson_num # None /\ course_meta.truthy
                       THEN get_lesson_info(course_meta, lesson_num[1])
                       ELSE [raises |-> FALSE, info |-> EmptyLesson]
         IN
         IF lookup.raises
         THEN [st EXCEPT !.raised = TRUE]
         ELSE [formatted |-> Append(st.formatted, entry),
               sources |-> Append(st.sources,
                                  source_info(course_title, course_meta, lesson_num,
                                              lookup.info)),
               seen_sources |-> st.seen_sources \cup {key},
               course_metadata_cache |-> cache,
               raised |-> FALSE]

RECURSIVE format_loop(_, _, _, _)
format_loop(st, hits, i, cat) ==
    IF st.raised \/ i > Len(hits) THEN st
    ELSE format_loop(format_hit(st, hits[i], cat), hits, i + 1, cat)

RECURSIVE join(_, _)
join(sep, parts) ==
    IF parts = <<>> THEN ""
    ELSE IF Len(parts) = 1 THEN parts[1]
    ELSE parts[1] \o sep \o join(sep, Tail(parts))

\* _format_results: the text it returns and the list it leaves in
\* self.last_sources (self_sources when it raises before the assignment).
format_results(self_sources, results, cat) ==
    LET st == format_loop([formatted |-> <<>>, sources |-> <<>>, seen_sources |-> {},
                           course_metadata_cache |-> <<>>, raised |-> FALSE],
                          results.hits, 1, cat)
    IN
    IF st.raised
    THEN [ret |-> "", raised |-> TRUE, last_sources |-> self_sources, built |-> <<>>]
    ELSE [ret |-> join("\n\n", st.formatted), raised |-> FALSE,
          last_sources |-> st.sources, built |-> st.sources]

empty_message(course_name, lesson_number) ==
    "No relevant content found"
        \o (IF course_name # None /\ course_name # Some("")
            THEN " in course '" \o course_name[1] \o "'" ELSE "")
        \o (IF lesson_number # None /\ lesson_number # Some(0)
            THEN " in lesson " \o ToString(lesson_number[1]) ELSE "")
        \o "."

\* A variant clearing the cache when the store reports an error.
execute_clearing(self_sources, results, course_name, lesson_number, cat) ==
    IF results.error # None
    THEN [ret |-> results.error[1], raised |-> FALSE, last_sources |-> <<>>, built |-> <<>>]
    ELSE IF results.hits = <<>>
    THEN [ret |-> empty_message(course_name, lesson_number), raised |-> FALSE,
          last_sources |-> self_sources, built |-> <<>>]
    ELSE format_results(self_sources, results, cat)

\* CourseSearchTool.execute on what store.search answered (results).
execute(self_sources, results, course_name, lesson_number, cat) ==
    IF results.error # None
    THEN [ret |-> results.error[1], raised |-> FALSE,
          last_sources |-> self_sources, built |-> <<>>]
    ELSE IF results.hits = <<>>
    THEN [ret |-> empty_message(course_name, lesson_number), raised |-> FALSE,
          last_sources |-> self_sources, built |-> <<>>]
    ELSE format_results(self_sources, results, cat)

\* ------------------------------------------------------------ tool objects
\* Tool objects a ToolManager may be handed: two CourseSearchTool instances,
\* another Tool that keeps a last_sources attribute, one that keeps none, and
\* two whose definition names no tool (no "name" key; an empty name).
SearchTools == {"search1", "search2"}
ToolObjects == SearchTools \cup {"cached_tool", "plain_tool", "unnamed_tool", "blank_tool"}

\* tool.get_tool_definition().get("name")
definition_name(tool) ==
    CASE tool \in SearchTools -> Some("search_course_content")
      [] tool = "cached_tool" -> Some("cached_tool")
      [] tool = "plain_tool" -> Some("plain_tool")
      [] tool = "blank_tool" -> Some("")
      [] OTHER -> None

\* hasattr(tool, 'last_sources')
has_last_sources(tool) == tool \in SearchTools \cup {"cached_tool"}

CachedTools == {t \in ToolObjects : has_last_sources(t)}
ToolNames == {definition_name(t)[1] : t \in {x \in ToolObjects : definition_name(x) # None}}

\* What the store answers to the calls made through the manager.
MgrHits ==
    {[doc |-> "d1", course_title |-> Some("MCP"), lesson_number |-> Some(1)],
     [doc |-> "d2", course_title |-> None, lesson_number |-> None]}
MgrResults == SearchResultsOver(MgrHits, MaxMgrHits)
MgrCatalog ==
    [t \in CourseTitles |->
        IF t = "MCP" THEN Entry(Some("http://mcp"), Some("Ann"), Some(GoodLessonsJson))
        ELSE Absent]

\* The lists the other cache-keeping tool's execute() may leave in its cache.
OtherSourceLists ==
    {<<>>,
     <<[course_title |-> "MCP", course_link |-> Some("http://mcp"), instructor |-> None,
        lesson_number |-> None, lesson_title |-> None, lesson_link |-> None]>>}

\* ------------------------------------------------------------- ToolManager
RECURSIVE key_index(_, _, _)
key_index(registry, name, i) ==
    IF i > Len(registry) THEN 0
    ELSE IF registry[i].name = name THEN i
    ELSE key_index(registry, name, i + 1)

\* self.tools[tool_name] = tool on an insertion-ordered dict
dict_set(registry, name, tool) ==
    LET i == key_index(registry, name, 1) IN
    IF i = 0 THEN Append(registry, [name |-> name, tool |-> tool])
    ELSE [registry EXCEPT ![i] = [name |-> name, tool |-> tool]]

falsy(name) == name = None \/ name = Some("")

\* A variant keeping the tool a name already has.
register_tool_keep_existing(registry, tool) ==
    LET tool_name == definition_name(tool) IN
    IF falsy(tool_name) THEN [raised |-> TRUE, tools |-> registry]
    ELSE IF key_index(registry, tool_name[1], 1) # 0 THEN [raised |-> FALSE, tools |-> registry]
    ELSE [raised |-> FALSE, tools |-> dict_set(registry, tool_name[1], tool)]

register_tool(registry, tool) ==
    LET tool_name == definition_name(tool) IN
    IF falsy(tool_name) THEN [raised |-> TRUE, tools |-> registry]
    ELSE [raised |-> FALSE, tools |-> dict_set(registry, tool_name[1], tool)]

\* A variant returning the last non-empty cache of the scan.
RECURSIVE get_last_sources_last(_, _, _)
get_last_sources_last(registry, caches, i) ==
    IF i > Len(registry) THEN <<>>
    ELSE LET later == get_last_sources_last(registry, caches, i + 1) IN
         IF later # <<>> THEN later
         ELSE IF has_last_sources(registry[i].tool) THEN caches[registry[i].tool]
         ELSE <<>>

RECURSIVE get_last_sources(_, _, _)
get_last_sources(registry, caches, i) ==
    IF i > Len(registry) THEN <<>>
    ELSE IF has_last_sources(registry[i].tool) /\ caches[registry[i].tool] # <<>>
         THEN caches[registry[i].tool]
    ELSE get_last_sources(registry, caches, i + 1)

\* A variant leaving the loop after the first cache it clears.
RECURSIVE reset_sources_first_only(_, _, _)
reset_sources_first_only(registry, caches, i) ==
    IF i > Len(registry) THEN caches
    ELSE IF has_last_sources(registry[i].tool)
         THEN [caches EXCEPT ![registry[i].tool] = <<>>]
    ELSE reset_sources_first_only(registry, caches, i + 1)

RECURSIVE reset_sources(_, _, _)
reset_sources(registry, caches, i) ==
    IF i > Len(registry) THEN caches
    ELSE IF has_last_sources(registry[i].tool)
         THEN reset_sources(registry, [caches EXCEPT ![registry[i].tool] = <<>>], i + 1)
    ELSE reset_sources(registry, caches, i + 1)

not_found_message(tool_name) == "Tool '" \o tool_name \o "' not found"

\* tool.execute(**kwargs) of a registered tool object.
tool_execute(tool, caches, results, built, cat) ==
    IF tool \in SearchTools
    THEN execute(caches[tool], results, None, None, cat)
    ELSE IF has_last_sources(tool)
    THEN [ret |-> "ok", raised |-> FALSE, last_sources |-> built, built |-> built]
    ELSE [ret |-> "ok", raised |-> FALSE, last_sources |-> <<>>, built |-> <<>>]

\* --------------------------------------------------------------- histories
Range(s) == {s[i] : i \in DOMAIN s}

\* ----------------------------------------------------------------- actions
NoArgs == [tool |-> "", name |-> "", ran |-> FALSE, results |-> [hits |-> <<>>, error |-> None],
           course_name |-> None, lesson_number |-> None]

Init ==
    /\ catalog = MgrCatalog
    /\ tools = <<>>
    /\ last_sources = [t \in CachedTools |-> <<>>]
    /\ op = "init"
    /\ args = NoArgs
    /\ ret = ""
    /\ sources_ret = <<>>
    /\ raised = FALSE
    /\ call_sources = <<>>
    /\ last_reg = [n \in ToolNames |-> None]
    /\ first_order = <<>>
    /\ tool_order = <<>>
    /\ phase = "dirty"

RegisterTool(tool) ==
    LET r == register_tool(tools, tool)
        name == definition_name(tool)
    IN
    /\ op # "pending"
    /\ tools' = r.tools
    /\ raised' = r.raised
    /\ op' = "register_tool"
    /\ args' = [NoArgs EXCEPT !.tool = tool]
    /\ ret' = ""
    /\ IF falsy(name)
       THEN UNCHANGED <<last_reg, first_order, tool_order, phase>>
       ELSE /\ last_reg' = [last_reg EXCEPT ![name[1]] = Some(tool)]
            /\ first_order' = IF name[1] \in Range(first_order) THEN first_order
                              ELSE Append(first_order, name[1])
            /\ tool_order' = IF tool \in Range(tool_order) THEN tool_order
                             ELSE Append(tool_order, tool)
            /\ phase' = IF phase = "reset" THEN "reset_reg" ELSE phase
    /\ sources_ret' = <<>>
    /\ call_sources' = <<>>
    /\ UNCHANGED <<catalog, last_sources>>

\* What a call of tool.execute(**kwargs) depends on besides the tool: what the
\* store answers (a search tool), the list the tool builds (another tool that
\* keeps a cache).
NoResults == [hits |-> <<>>, error |-> None]
ExecInputs(tool) ==
    IF tool \in SearchTools THEN {[results |-> r, built |-> <<>>] : r \in MgrResults}
    ELSE IF has_last_sources(tool)
    THEN {[results |-> NoResults, built |-> b] : b \in OtherSourceLists}
    ELSE {[results |-> NoResults, built |-> <<>>]}

ExecuteTool(tool_name) ==
    LET i == key_index(tools, tool_name, 1) IN
    /\ op # "pending"
    /\ op' = "execute_tool"
    /\ IF i = 0
       THEN /\ ret' = not_found_message(tool_name)
            /\ raised' = FALSE
            /\ args' = [NoArgs EXCEPT !.name = tool_name]
            /\ call_sources' = <<>>
            /\ UNCHANGED <<last_sources, phase>>
       ELSE \E input \in ExecInputs(tools[i].tool) :
            LET tool == tools[i].tool
                r == tool_execute(tool, last_sources, input.results, input.built, catalog)
            IN
            /\ ret' = r.ret
            /\ raised' = r.raised
            /\ args' = [NoArgs EXCEPT !.name = tool_name, !.tool = tool, !.ran = TRUE,
                                      !.results = input.results]
            /\ last_sources' = IF has_last_sources(tool)
                               THEN [last_sources EXCEPT ![tool] = r.last_sources]
                               ELSE last_sources
            /\ call_sources' = r.built
            /\ phase' = "dirty"
    /\ sources_ret' = <<>>
    /\ UNCHANGED <<catalog, tools, last_reg, first_order, tool_order>>

GetLastSources ==
    /\ op # "pending"
    /\ op' = "get_last_sources"
    /\ sources_ret' = get_last_sources(tools, last_sources, 1)
    /\ raised' = FALSE
    /\ args' = NoArgs
    /\ ret' = ""
    /\ call_sources' = <<>>
    /\ UNCHANGED <<catalog, tools, last_sources, last_reg, first_order, tool_order, phase>>

ResetSources ==
    /\ op # "pending"
    /\ op' = "reset_sources"
    /\ last_sources' = reset_sources(tools, last_sources, 1)
    /\ raised' = FALSE
    /\ args' = NoArgs
    /\ ret' = ""
    /\ phase' = "reset"
    /\ sources_ret' = <<>>
    /\ call_sources' = <<>>
    /\ UNCHANGED <<catalog, tools, last_reg, first_order, tool_order>>

Next ==
    \/ \E tool \in ToolObjects : RegisterTool(tool)
    \/ \E tool_name \in ToolNames \cup {"no_such_tool"} : ExecuteTool(tool_name)
    \/ GetLastSources
    \/ ResetSources

Spec == Init /\ [][Next]_vars

\* One CourseSearchTool on its own: the catalog, the arguments of the call and
\* what the store answers are drawn at the start, and the tool's cache holds
\* what an earlier successful search left there.
EarlierHits == <<[doc |-> "d0", course_title |-> Some("MCP"), lesson_number |-> None]>>
EarlierSources(cat) ==
    execute(<<>>, [hits |-> EarlierHits, error |-> None], None, None, cat).last_sources

InitTool ==
    /\ catalog \in Catalogs
    /\ tools = <<>>
    /\ last_sources = [t \in CachedTools |->
                         IF t = "search1" THEN EarlierSources(catalog) ELSE <<>>]
    /\ op = "pending"
    /\ args \in {[NoArgs EXCEPT !.tool = "search1", !.results = r,
                                !.course_name = c, !.lesson_number = l] :
                    r \in SearchResultsOver(Hits, MaxHits),
                    c \in {None, Some("MCP")},
                    l \in {None} \cup {Some(n) : n \in LessonNums}}
    /\ ret = ""
    /\ sources_ret = <<>>
    /\ raised = FALSE
    /\ call_sources = <<>>
    /\ last_reg = [n \in ToolNames |-> None]
    /\ first_order = <<>>
    /\ tool_order = <<>>
    /\ phase = "dirty"

Execute ==
    LET r == execute(last_sources[args.tool], args.results, args.course_name,
                     args.lesson_number, catalog)
    IN
    /\ op = "pending"
    /\ op' = "execute"
    /\ ret' = r.ret
    /\ raised' = r.raised
    /\ last_sources' = [last_sources EXCEPT ![args.tool] = r.last_sources]
    /\ call_sources' = r.built
    /\ args' = [args EXCEPT !.ran = TRUE]
    /\ UNCHANGED <<catalog, tools, sources_ret, last_reg, first_order, tool_order, phase>>

NextTool == Execute

SpecTool == InitTool /\ [][NextTool]_vars

\* ================================================ claims: CourseSearchTool
TheHits == args.results.hits
TheSources == last_sources["search1"]

\* execute() ran on an empty result set the store reported without error.
EmptyPath == op = "execute" /\ args.results.error = None /\ TheHits = <<>>
\* execute() ran on a non-empty result set.
NonEmptyPath == op = "execute" /\ args.results.error = None /\ TheHits # <<>>
\* ... and returned its text.
Formatted == NonEmptyPath /\ ~raised

HitKey(hit) ==
    <<IF hit.course_title = None THEN "unknown" ELSE hit.course_title[1], hit.lesson_number>>
SourceKey(source) == <<source.course_title, source.lesson_number>>
FirstOccurrence(hits, key) ==
    CHOOSE k \in DOMAIN hits :
        HitKey(hits[k]) = key /\ \A j \in 1..(k - 1) : HitKey(hits[j]) # key

\* C3: after execute() on a non-empty result set, the cached source list has
\* exactly one Source per distinct (course_title, lesson_number) key of the
\* hits (a missing course_title counting as "unknown"): no two Sources share
\* a key, every hit's key has a Source, every Source's key is a hit's key, and
\* the Sources are in the order of the first occurrence of their keys.
C3_OneSourcePerKey ==
    Formatted =>
        /\ \A i, j \in DOMAIN TheSources :
              i # j => SourceKey(TheSources[i]) # SourceKey(TheSources[j])
        /\ \A k \in DOMAIN TheHits :
              \E i \in DOMAIN TheSources : SourceKey(TheSources[i]) = HitKey(TheHits[k])
        /\ \A i \in DOMAIN TheSources :
              \E k \in DOMAIN TheHits : HitKey(TheHits[k]) = SourceKey(TheSources[i])
        /\ \A i, j \in DOMAIN TheSources :
              i < j => FirstOccurrence(TheHits, SourceKey(TheSources[i]))
                         < FirstOccurrence(TheHits, SourceKey(TheSources[j]))

\* Two hits with different keys, the first without a course_title: two Sources.
C3_Witness ==
    /\ Formatted
    /\ Len(TheHits) = 2
    /\ TheHits[1].course_title = None
    /\ HitKey(TheHits[1]) # HitKey(TheHits[2])
    /\ Len(TheSources) = 2
    /\ TheSources[1].course_title = "unknown"

ExpectedHeader(hit) ==
    IF hit.lesson_number = None
    THEN "[" \o HitKey(hit)[1] \o "]"
    ELSE "[" \o HitKey(hit)[1] \o " - Lesson " \o ToString(hit.lesson_number[1]) \o "]"
ExpectedBlock(hit) == ExpectedHeader(hit) \o "\n" \o hit.doc
RECURSIVE ExpectedText(_, _)
ExpectedText(hits, n) ==
    IF n = 1 THEN ExpectedBlock(hits[1])
    ELSE ExpectedText(hits, n - 1) \o "\n\n" \o ExpectedBlock(hits[n])

\* C4: the text execute() returns for N >= 1 hits is the N blocks
\* "<header of hit k>\n<document k>", in the store's order, joined by "\n\n";
\* a hit whose key was seen before still has its block.
C4_OneBlockPerHit == Formatted => ret = ExpectedText(TheHits, Len(TheHits))

\* Two hits with one key and different documents: two blocks, one Source.
C4_Witness ==
    /\ Formatted
    /\ Len(TheHits) = 2
    /\ HitKey(TheHits[1]) = HitKey(TheHits[2])
    /\ TheHits[1].doc # TheHits[2].doc
    /\ TheHits[1].lesson_number = Some(0)
    /\ Len(TheSources) = 1

\* C5: on an empty result set execute() raises nothing and returns
\* "No relevant content found", then " in course '<course_name>'" whenever a
\* course_name was supplied, then " in lesson <lesson_number>" whenever a
\* lesson_number was supplied (every integer), then ".".
C5_EmptyMessage ==
    EmptyPath =>
        /\ ~raised
        /\ ret = "No relevant content found"
                   \o (IF args.course_name # None
                       THEN " in course '" \o args.course_name[1] \o "'" ELSE "")
                   \o (IF args.lesson_number # None
                       THEN " in lesson " \o ToString(args.lesson_number[1]) ELSE "")
                   \o "."

\* The catalog holds an entry for the title (the lookup neither throws nor
\* comes back empty) ...
EntryFound(title) == ~catalog[title].raises /\ catalog[title].metadatas # <<>>
EntryOf(title) == catalog[title].metadatas[1]
\* ... and its embedded lesson list, when it has one, parses.
EntryUsable(title) ==
    /\ EntryFound(title)
    /\ EntryOf(title).lessons_json # None => ~JsonLoads(EntryOf(title).lessons_json[1]).raises

\* C6: whatever the catalog holds (title absent, lookup throws, lesson list
\* unparseable or malformed), execute() on a non-empty result set does not
\* raise, and the Source of a course whose entry could not be used has
\* course_link, instructor, lesson_title and lesson_link all null.
C6_CatalogFailureNeverRaises ==
    NonEmptyPath =>
        /\ ~raised
        /\ \A i \in DOMAIN TheSources :
              ~EntryUsable(TheSources[i].course_title) =>
                  /\ TheSources[i].course_link = None
                  /\ TheSources[i].instructor = None
                  /\ TheSources[i].lesson_title = None
                  /\ TheSources[i].lesson_link = None

\* C7: when the store reports an error, execute() returns that message,
\* raises nothing and leaves every cached source list as it was.
C7_ErrorLeavesCache ==
    [][(op' = "execute" /\ args'.results.error # None) =>
          /\ ret' = args'.results.error[1]
          /\ ~raised'
          /\ last_sources' = last_sources]_vars

\* The store reported an error to a tool whose cache held a list.
C7_Witness ==
    /\ op = "execute"
    /\ args.results.error = Some("connection timeout")
    /\ ret = "connection timeout"
    /\ TheSources # <<>>

\* The lesson entries of the title's catalog entry, in their stored order.
LessonEntries(title) ==
    IF EntryFound(title) /\ EntryOf(title).lessons_json # None
       /\ ~JsonLoads(EntryOf(title).lessons_json[1]).raises
       /\ JsonLoads(EntryOf(title).lessons_json[1]).value.t = "list"
    THEN JsonLoads(EntryOf(title).lessons_json[1]).value.items
    ELSE <<>>
MatchingLessons(source) ==
    {i \in DOMAIN LessonEntries(source.course_title) :
        /\ source.lesson_number # None
        /\ LessonEntries(source.course_title)[i].t = "dict"
        /\ LessonEntries(source.course_title)[i].lesson_number = source.lesson_number}
FirstMatch(source) ==
    LessonEntries(source.course_title)[
        CHOOSE i \in MatchingLessons(source) : \A j \in MatchingLessons(source) : i <= j]

\* The lesson fields of a Source, as C10 states them.
LessonFieldsAsStated(source) ==
    /\ \E k \in DOMAIN TheHits : HitKey(TheHits[k]) = SourceKey(source)
    /\ IF MatchingLessons(source) # {}
       THEN /\ source.lesson_title = FirstMatch(source).lesson_title
            /\ source.lesson_link = FirstMatch(source).lesson_link
       ELSE source.lesson_title = None /\ source.lesson_link = None

\* C10 as stated: course_link and instructor are the catalog entry's values
\* whenever the entry of the course_title is found, and null otherwise.
C10_AsStated ==
    Formatted =>
        \A i \in DOMAIN TheSources :
            LET source == TheSources[i] IN
            /\ source.course_link = IF EntryFound(source.course_title)
                                    THEN EntryOf(source.course_title).course_link ELSE None
            /\ source.instructor = IF EntryFound(source.course_title)
                                   THEN EntryOf(source.course_title).instructor ELSE None
            /\ LessonFieldsAsStated(source)

\* C10, amended: course_link and instructor are the catalog entry's values
\* when the entry is found and its embedded lesson list, if it has one,
\* parses, and null otherwise; lesson_number is the hit's; lesson_title and
\* lesson_link are those of the first lesson entry with exactly the hit's
\* (non-null) lesson_number, and null when there is none.
C10_SourceFields ==
    Formatted =>
        \A i \in DOMAIN TheSources :
            LET source == TheSources[i] IN
            /\ source.course_link = IF EntryUsable(source.course_title)
                                    THEN EntryOf(source.course_title).course_link ELSE None
            /\ source.instructor = IF EntryUsable(source.course_title)
                                   THEN EntryOf(source.course_title).instructor ELSE None
            /\ LessonFieldsAsStated(source)

\* A Source with course and lesson fields filled from the catalog, next to
\* one whose lesson number has no entry.
C10_Witness ==
    /\ Formatted
    /\ Len(TheSources) = 2
    /\ TheSources[1].course_link = Some("http://mcp")
    /\ TheSources[1].lesson_number = Some(1)
    /\ TheSources[1].lesson_title = Some("Setup")
    /\ TheSources[1].lesson_link = None
    /\ TheSources[2].course_title = "unknown"
    /\ TheSources[2].lesson_number = Some(0)
    /\ TheSources[2].course_link = Some("http://u")
    /\ TheSources[2].lesson_title = None

\* ===================================================== claims: ToolManager
Registered == {tools[i].tool : i \in DOMAIN tools}

\* C1: with one CourseSearchTool registered, get_last_sources() directly
\* after an execute() that met no store error returns exactly the source
\* list of that call, nothing carried over from an earlier call.
C1_SourcesOfLastExecute ==
    (/\ op = "execute_tool" /\ args.ran /\ ~raised
     /\ args.tool \in SearchTools
     /\ args.results.error = None
     /\ Len(tools) = 1)
        => get_last_sources(tools, last_sources, 1) = call_sources

\* C2 as stated: after reset_sources() and before any further execute(),
\* get_last_sources() returns an empty list.
C2_AsStated ==
    phase \in {"reset", "reset_reg"} => get_last_sources(tools, last_sources, 1) = <<>>

\* C2, amended: after reset_sources() and before any further execute() or
\* register_tool() call, every registered tool that has a cache has an empty
\* one and get_last_sources() returns an empty list; reset_sources() raises
\* nothing, whatever tools are registered.
C2_ResetEmptiesRegistered ==
    phase = "reset" =>
        /\ \A t \in Registered : has_last_sources(t) => last_sources[t] = <<>>
        /\ op = "get_last_sources" => sources_ret = <<>>
        /\ op = "reset_sources" => ~raised

\* get_last_sources() after a reset of a registry holding a tool without a
\* cache and two with one, while an unregistered tool still holds a list.
C2_Witness ==
    /\ phase = "reset"
    /\ op = "get_last_sources"
    /\ sources_ret = <<>>
    /\ Len(tools) = 3
    /\ \E t \in CachedTools \ Registered : last_sources[t] # <<>>

\* C8: the registry maps each name to the tool of the last register_tool
\* call made with it and holds no other name; register_tool raises exactly
\* when the definition's name is missing or falsy, and then leaves the
\* registry as it was; no other operation changes the registry.
C8_LastRegistrationWins ==
    /\ [](/\ \A n \in ToolNames :
               IF last_reg[n] = None
               THEN \A i \in DOMAIN tools : tools[i].name # n
               ELSE \E i \in DOMAIN tools :
                       tools[i].name = n /\ tools[i].tool = last_reg[n][1]
          /\ \A i, j \in DOMAIN tools : i # j => tools[i].name # tools[j].name
          /\ \A i \in DOMAIN tools : tools[i].name \in ToolNames \ {""}
          /\ op = "register_tool" => (raised <=> falsy(definition_name(args.tool))))
    /\ [][(op' # "register_tool" \/ raised') => tools' = tools]_vars

\* A name registered for a second tool, then a registration without a name.
C8_Witness ==
    /\ op = "register_tool"
    /\ raised
    /\ args.tool = "unnamed_tool"
    /\ Len(tools) = 2
    /\ tools[1] = [name |-> "search_course_content", tool |-> "search2"]
    /\ tool_order = <<"search1", "plain_tool", "search2">>

\* The cache of the first tool of a sequence of tools whose cache is
\* non-empty; the empty list when there is none.
FirstNonEmpty(order) ==
    LET full == {i \in DOMAIN order :
                    has_last_sources(order[i]) /\ last_sources[order[i]] # <<>>}
    IN IF full = {} THEN <<>>
       ELSE last_sources[order[CHOOSE i \in full : \A j \in full : i <= j]]

IsRegistered(tool) == tool \in Registered
\* The registered tools, each placed by the first register_tool call made with it.
ByToolRegistration == SelectSeq(tool_order, IsRegistered)
\* The registered tools, each placed by the first register_tool call made with its name.
ByNameRegistration == [i \in DOMAIN first_order |-> last_reg[first_order[i]][1]]

\* C9 as stated: get_last_sources() returns the cache of the first tool, in
\* the order the registered tools were registered, whose cache is non-empty.
C9_AsStated == op = "get_last_sources" => sources_ret = FirstNonEmpty(ByToolRegistration)

\* C9, amended: get_last_sources() returns the cache of the first tool whose
\* cache is non-empty in the order in which the tools' names were first
\* registered (a re-registered name keeps its place), the empty list when
\* there is none; tools without a cache are skipped, and the call changes
\* neither a cache nor the registry.
C9_FirstNonEmptyByName ==
    [][op' = "get_last_sources" =>
          /\ sources_ret' = FirstNonEmpty(ByNameRegistration)
          /\ ~raised'
          /\ last_sources' = last_sources
          /\ tools' = tools]_vars

\* A tool without a cache first, then two tools with non-empty caches.
C9_Witness ==
    /\ op = "get_last_sources"
    /\ Len(tools) = 3
    /\ ~has_last_sources(tools[1].tool)
    /\ last_sources[tools[2].tool] # <<>>
    /\ last_sources[tools[3].tool] # <<>>
    /\ sources_ret = last_sources[tools[2].tool]
    /\ sources_ret # last_sources[tools[3].tool]

====
